---- MODULE Spec2Model ----
(***************************************************************************)
(* The eval command of the evaluation-function base layer                  *)
(* (src/tools/commands.py): one request is parsed, validated, evaluated    *)
(* once against the reference answer and, when that evaluation is          *)
(* incorrect, resolved against the feedback cases of params["cases"].      *)
(*                                                                         *)
(* The evaluation function is an external collaborator.  It is modelled as *)
(* a deterministic function of its arguments about which nothing else is   *)
(* known: the first call with given arguments picks any outcome of         *)
(* Outcomes, and fn remembers it for every later call with the same        *)
(* arguments.                                                              *)
(*                                                                         *)
(* Python values: a dict is a function from its keys (strings) to values,  *)
(* a list is a sequence, None is the record None.  A value that can be an  *)
(* int or a str in the same place (a case's mark) carries its type.        *)
(***************************************************************************)
EXTENDS Integers, Sequences, FiniteSets, TLC

VARIABLES
    event,      \* the event handed to evaluate(), as supplied (never written)
    evaluation_function, \* TRUE iff commands.evaluation_function is not None
    pc,         \* position of the call of evaluate()
    params,     \* the request's params dict; params["cases"] is the live list
    result,     \* the dict returned by the primary evaluation call
    index,      \* loop index of find_first_matching_case
    matches,    \* find_first_matching_case: indices of the cases that matched
    feedback,   \* find_first_matching_case: the function's feedback per match
    warnings,   \* find_first_matching_case / get_case_feedback: warnings
    match,      \* what get_case_feedback returned as the match (or None)
    retval,     \* the Response evaluate() returned (or None)
    raised,     \* the exception evaluate() raised (or None)
    calls,      \* every call of the evaluation function, in order
    evaluated,  \* every call of evaluate_case and what it returned, in order
    fn,         \* the evaluation function, as far as it has been called
    response,   \* handler(): what the command's handle_ function returned
    first_run   \* what an earlier run of get_case_feedback returned (or None)

vars == <<event, evaluation_function, pc, params, result, index, matches,
          feedback, warnings, match, retval, raised, calls, evaluated, fn,
          response, first_run>>

\* The longest case list of a request.
MaxCases == 2

None == [none |-> TRUE]

EmptyDict == <<>>

Has(d, k) == k \in DOMAIN d

\* dict.get(k, default)
Get(d, k, default) == IF k \in DOMAIN d THEN d[k] ELSE default

\* {**a, **b}: the keys of b win.
Merge(a, b) == b @@ a

\* d[k] = v on a dict
Put(d, k, v) == [x \in (DOMAIN d) \cup {k} |-> IF x = k THEN v ELSE d[x]]

Ret(v) == [kind |-> "return", value |-> v]

Raise(e) == [kind |-> "raise", exc |-> e]

Exception(cls, args) == [cls |-> cls, args |-> args]

\* EvaluationException(...).error_dict is the payload of the structured fault.
EvaluationException(error_dict) ==
    [cls |-> "EvaluationException", error_dict |-> error_dict]

\* str(e) of an exception: its single argument, "" without arguments; a
\* KeyError shows the repr of its key.
Str(e) ==
    IF Len(e.args) = 0 THEN ""
    ELSE IF e.cls = "KeyError" THEN "'" \o e.args[1] \o "'"
    ELSE e.args[1]

\* repr(e) of an exception: ValueError('raised'), ValueError().
Repr(e) ==
    IF Len(e.args) = 0 THEN e.cls \o "()"
    ELSE e.cls \o "('" \o e.args[1] \o "')"

IntMark(n) == [type |-> "int", val |-> n]

StrMark(s) == [type |-> "str", val |-> s]

\* The decimal literals among the strings that occur as marks.
Literals == ("0" :> 0) @@ ("1" :> 1) @@ ("2" :> 2)

\* Faulty variant: a str that is no literal counts as 0.
int_lenient(v) ==
    IF v.type = "int" THEN Ret(v.val)
    ELSE IF v.val \in DOMAIN Literals THEN Ret(Literals[v.val])
    ELSE Ret(0)

\* int(x) of a mark: an int is itself, a str is parsed as a decimal literal,
\* and a str that is no literal raises ValueError.
int(v) ==
    IF v.type = "int" THEN Ret(v.val)
    ELSE IF v.val \in DOMAIN Literals THEN Ret(Literals[v.val])
    ELSE Raise(Exception("ValueError",
                 <<"invalid literal for int() with base 10: '" \o v.val \o "'">>))

\* bool(n) of an int
bool(n) == n # 0

\* sep.join((a, b))
join(sep, a, b) == a \o sep \o b

RECURSIVE join_ids(_)
\* ", ".join(map(str, ids))
join_ids(ids) ==
    IF Len(ids) = 0 THEN ""
    ELSE IF Len(ids) = 1 THEN ToString(ids[1])
    ELSE ToString(ids[1]) \o ", " \o join_ids(Tail(ids))

\* class CaseResult(NamedTuple)
CaseResult(is_correct, fb, warning) ==
    [is_correct |-> is_correct, feedback |-> fb, warning |-> warning]

\* class Response(TypedDict)
Response(command, res) == [command |-> command, result |-> res]

\* The arguments of one call of the evaluation function.
Args(resp, answer, ps) ==
    [response |-> resp, answer |-> answer, params |-> ps]

-----------------------------------------------------------------------------
(* evaluate_case *)

\* Faulty variant: the request's keys win over the case's.
combined_params_request_wins(ps, c) == Merge(Get(c, "params", EmptyDict), ps)

\* case.get("params", {}) merged over the request's params.
combined_params(ps, c) == Merge(ps, Get(c, "params", EmptyDict))

\* Faulty variant: only the answer field is looked for.
missing_field_answer_only(c) == ~Has(c, "answer")

\* evaluate_case returns before calling the evaluation function.
missing_field(c) == ~Has(c, "answer") \/ ~Has(c, "feedback")

\* Faulty variant: the detail is str(e) even when it is empty.
exception_warning_str_only(i, e) ==
    [case |-> i,
     message |-> "An exception was raised while executing the evaluation function.",
     detail |-> Str(e)]

\* Faulty variant: the warning names the first case whatever the index.
exception_warning_first_case(i, e) ==
    [case |-> 0,
     message |-> "An exception was raised while executing the evaluation function.",
     detail |-> IF Str(e) # "" THEN Str(e) ELSE Repr(e)]

\* The warning of the "except Exception" branch.
exception_warning(i, e) ==
    [case |-> i,
     message |-> "An exception was raised while executing the evaluation function.",
     detail |-> IF Str(e) # "" THEN Str(e) ELSE Repr(e)]

\* The warning of the "except EvaluationException" branch:
\* CaseWarning(case=index, **e.error_dict).  When error_dict has the key
\* "case" itself the keyword is given twice and the call raises (TypeError by
\* the language, KeyError('case') on CPython 3.11) inside the handler.
evaluation_warning(i, e) ==
    IF Has(e.error_dict, "case")
    THEN Raise(Exception("TypeError",
                 <<"got multiple values for keyword argument 'case'">>))
    ELSE Ret([case |-> i] @@ e.error_dict)

\* evaluate_case(response, params, case, index), given the outcome o of its
\* call of the evaluation function (not looked at when no call is made).
evaluate_case(ps, c, i, o) ==
    IF missing_field(c)
    THEN Ret(CaseResult(FALSE, "",
               [case |-> i, message |-> "Missing answer/feedback field"]))
    ELSE IF o.kind = "return"
    THEN IF Has(o.value, "is_correct")
         THEN Ret(CaseResult(o.value["is_correct"],
                             Get(o.value, "feedback", ""), None))
         ELSE Ret(CaseResult(FALSE, "",
                    exception_warning(i, Exception("KeyError", <<"is_correct">>))))
    ELSE IF o.exc.cls = "EvaluationException"
    THEN LET w == evaluation_warning(i, o.exc)
         IN  IF w.kind = "raise" THEN w
             ELSE Ret(CaseResult(FALSE, "", w.value))
    ELSE Ret(CaseResult(FALSE, "", exception_warning(i, o.exc)))

-----------------------------------------------------------------------------
(* get_case_feedback, after find_first_matching_case has returned *)

\* Faulty variant: only the first matched index is listed.
multiple_matches_warning_first_only(ms) ==
    [message |-> "Cases " \o ToString(ms[1])
                 \o " were matched. Only the first one's feedback was returned"]

multiple_matches_warning(ms) ==
    [message |-> "Cases " \o join_ids(ms)
                 \o " were matched. Only the first one's feedback was returned"]

\* Faulty variant: the flag defaults to True.
override_eval_feedback_default_true(m) ==
    Get(Get(m, "params", EmptyDict), "override_eval_feedback", TRUE)

\* match_params.get("override_eval_feedback", False) of the case m
override_eval_feedback(m) ==
    Get(Get(m, "params", EmptyDict), "override_eval_feedback", FALSE)

\* Faulty variant: the feedback of the function replaces that of the case.
all_feedback_function_only(m, fb) == fb

\* "<br />".join(all_feedback) for the matched case m and the function's
\* feedback fb
all_feedback(m, fb) == join("<br />", Get(m, "feedback", ""), fb)

\* Faulty variant: the id written on the match counts from one.
get_case_feedback_one_based(cs, ms, fbs, ws) ==
    IF Len(ms) = 0
    THEN [match |-> None, warnings |-> ws, cases |-> cs]
    ELSE LET match_id == ms[1]
             m1 == Put(cs[match_id + 1], "id", match_id + 1)
             m2 == IF override_eval_feedback(m1)
                   THEN Put(m1, "feedback", all_feedback(m1, fbs[1]))
                   ELSE m1
         IN  [match |-> m2,
              warnings |-> IF Len(ms) > 1
                           THEN Append(ws, multiple_matches_warning(ms))
                           ELSE ws,
              cases |-> [cs EXCEPT ![match_id + 1] = m2]]

\* Faulty variant: every case is given its id, not the match alone.
get_case_feedback_ids_on_all(cs, ms, fbs, ws) ==
    IF Len(ms) = 0
    THEN [match |-> None, warnings |-> ws, cases |-> cs]
    ELSE LET match_id == ms[1]
             m1 == Put(cs[match_id + 1], "id", match_id)
             m2 == IF override_eval_feedback(m1)
                   THEN Put(m1, "feedback", all_feedback(m1, fbs[1]))
                   ELSE m1
         IN  [match |-> m2,
              warnings |-> ws,
              cases |-> [k \in DOMAIN cs |->
                           IF k = match_id + 1 THEN m2
                           ELSE Put(cs[k], "id", k - 1)]]

\* The match, the warnings and the case list as get_case_feedback leaves them.
get_case_feedback(cs, ms, fbs, ws) ==
    IF Len(ms) = 0
    THEN [match |-> None, warnings |-> ws, cases |-> cs]
    ELSE LET match_id == ms[1]
             m1 == Put(cs[match_id + 1], "id", match_id)
             m2 == IF override_eval_feedback(m1)
                   THEN Put(m1, "feedback", all_feedback(m1, fbs[1]))
                   ELSE m1
         IN  [match |-> m2,
              warnings |-> IF Len(ms) > 1
                           THEN Append(ws, multiple_matches_warning(ms))
                           ELSE ws,
              cases |-> [cs EXCEPT ![match_id + 1] = m2]]

-----------------------------------------------------------------------------
(* evaluate, after get_case_feedback has returned *)

\* Faulty variant: a request without cases gets an empty warnings list.
no_cases_result_with_warnings(res) == Put(res, "warnings", <<>>)

\* The result of a request without cases: the primary result itself.
no_cases_result(res) == res

\* Faulty variant: the cases are gone through whatever the primary result.
runs_cases_always(res, ps) == Has(ps, "cases") /\ Len(ps["cases"]) > 0

\* result["is_correct"] is False and "cases" in params and len(...) > 0
runs_cases(res, ps) ==
    /\ res["is_correct"] = FALSE
    /\ Has(ps, "cases")
    /\ Len(ps["cases"]) > 0

\* Faulty variant: the warnings are attached even when there are none.
assemble_warnings_always(res, m, ws) ==
    LET r1 == Put(res, "warnings", ws)
    IN  IF m = None THEN Ret(r1)
        ELSE IF ~Has(m, "feedback")
        THEN Raise(Exception("KeyError", <<"feedback">>))
        ELSE LET r2 == Put(Put(r1, "feedback", m["feedback"]),
                           "matched_case", m["id"])
             IN  IF Has(m, "mark")
                 THEN LET n == int(m["mark"])
                      IN  IF n.kind = "raise" THEN n
                          ELSE Ret(Put(r2, "is_correct", bool(n.value)))
                 ELSE Ret(r2)

\* Faulty variant: a match makes the result correct, mark or no mark.
assemble_match_is_correct(res, m, ws) ==
    LET r1 == IF Len(ws) > 0 THEN Put(res, "warnings", ws) ELSE res
    IN  IF m = None THEN Ret(r1)
        ELSE IF ~Has(m, "feedback")
        THEN Raise(Exception("KeyError", <<"feedback">>))
        ELSE Ret(Put(Put(Put(r1, "feedback", m["feedback"]),
                         "matched_case", m["id"]), "is_correct", TRUE))

\* The result dict with the warnings and the match merged in; match["feedback"]
\* and int(mark) may raise.
assemble(res, m, ws) ==
    LET r1 == IF Len(ws) > 0 THEN Put(res, "warnings", ws) ELSE res
    IN  IF m = None THEN Ret(r1)
        ELSE IF ~Has(m, "feedback")
        THEN Raise(Exception("KeyError", <<"feedback">>))
        ELSE LET r2 == Put(Put(r1, "feedback", m["feedback"]),
                           "matched_case", m["id"])
             IN  IF Has(m, "mark")
                 THEN LET n == int(m["mark"])
                      IN  IF n.kind = "raise" THEN n
                          ELSE Ret(Put(r2, "is_correct", bool(n.value)))
                 ELSE Ret(r2)

-----------------------------------------------------------------------------
(* parse.body and validate.body *)

PyDict(d) == [type |-> "dict", val |-> d]

PyStr(s) == [type |-> "str", val |-> s]

ParseError(message) ==
    [cls |-> "ParseError", args |-> <<>>, message |-> message]

ValidationError(message) ==
    [cls |-> "ValidationError", args |-> <<>>, message |-> message]

NotJson == "{}}}{{{[][] this is not json."

JsonBody == "{\"response\": \"hello\", \"answer\": \"world\"}"

\* json.loads(s) for the texts above
json_loads(s) ==
    IF s = JsonBody THEN Ret([response |-> "hello", answer |-> "world"])
    ELSE Raise(Exception("JSONDecodeError", <<"Extra data">>))

\* parse.body(event)
parse_body(ev) ==
    IF ~Has(ev, "body")
    THEN Raise(ParseError("No data supplied in request body."))
    ELSE IF ev["body"].type = "dict" THEN Ret(ev["body"].val)
    ELSE LET r == json_loads(ev["body"].val)
         IN  IF r.kind = "return" THEN r
             ELSE Raise(ParseError("Request body is not valid JSON."))

\* validate.body(body, ReqBodyValidators.EVALUATION): the evaluation schema
\* requires response and answer.
validate_body(b) ==
    IF Has(b, "response") /\ Has(b, "answer") THEN Ret(None)
    ELSE Raise(ValidationError(
                 "Failed to validate body against the evaluation schema."))

-----------------------------------------------------------------------------
(* The requests and the evaluation function's outcomes *)

Marks ==
    {IntMark(0), IntMark(1), StrMark("0"), StrMark("1"), StrMark("2"),
     StrMark("abc")}

CaseParams ==
    {EmptyDict, [override_eval_feedback |-> TRUE],
     [override_eval_feedback |-> FALSE], [force |-> FALSE]}

Cases ==
    {[feedback |-> "should be 'hello'."], [answer |-> "hello"]}
    \cup {[answer |-> "hello", feedback |-> "should be 'hello'."],
          [answer |-> "yes", feedback |-> "should be 'yes'."]}
    \cup {[answer |-> "hello", feedback |-> "should be 'hello'.", mark |-> m] :
             m \in Marks}
    \cup {[answer |-> "hello", feedback |-> "should be 'hello'.", params |-> p] :
             p \in CaseParams}
    \cup {[answer |-> "hello", feedback |-> "",
           params |-> [override_eval_feedback |-> TRUE]]}
    \cup {[answer |-> "yes", feedback |-> "should be 'yes'.",
           mark |-> IntMark(1), params |-> [override_eval_feedback |-> TRUE]]}

\* The cases that stand before the last one of a list: without a field,
\* plain, with a mark, with the override flag, with params of their own.
LeadCases ==
    {[feedback |-> "should be 'hello'."], [answer |-> "hello"],
     [answer |-> "hello", feedback |-> "should be 'hello'."],
     [answer |-> "yes", feedback |-> "should be 'yes'."],
     [answer |-> "hello", feedback |-> "should be 'hello'.",
      mark |-> IntMark(0)],
     [answer |-> "hello", feedback |-> "should be 'hello'.",
      params |-> [override_eval_feedback |-> TRUE]],
     [answer |-> "hello", feedback |-> "should be 'hello'.",
      params |-> [force |-> FALSE]]}

\* The case lists: any case last, a case of LeadCases before it.
CaseLists ==
    UNION {{l \in [1..n -> Cases] : \A k \in 1..(n - 1) : l[k] \in LeadCases} :
              n \in 0..MaxCases}

Params ==
    {EmptyDict}
    \cup {[cases |-> cs] : cs \in CaseLists}
    \cup {[force |-> TRUE, cases |-> cs] :
             cs \in {l \in CaseLists : Len(l) < MaxCases}}

\* The reference answer "world" differs from every case's answer; "hello" is
\* also the answer of cases.
Bodies ==
    {[response |-> "hello"], [response |-> "hello", answer |-> "world"]}
    \cup {[response |-> "hello", answer |-> "world", params |-> p] : p \in Params}
    \cup {[response |-> "hello", answer |-> "hello", params |-> [cases |-> cs]] :
             cs \in {l \in CaseLists : Len(l) < MaxCases}}

Events ==
    {[headers |-> [command |-> "eval"]]}
    \cup {[body |-> PyStr(t)] : t \in {NotJson, JsonBody}}
    \cup {[body |-> PyDict(b)] : b \in Bodies}

Outcomes ==
    {Ret(d) : d \in {[is_correct |-> TRUE],
                     [is_correct |-> TRUE, feedback |-> "well done"],
                     [is_correct |-> FALSE],
                     [is_correct |-> FALSE, feedback |-> "try again"],
                     EmptyDict}}
    \cup {Raise(EvaluationException(d)) :
             d \in {[message |-> "cannot compare"],
                    [message |-> "cannot compare", case |-> 7]}}
    \cup {Raise(Exception("ValueError", a)) : a \in {<<"raised">>, <<>>}}

\* What a call with arguments a may do: anything the first time, the same
\* again afterwards.
OutcomesOf(a) == IF a \in DOMAIN fn THEN {fn[a]} ELSE Outcomes

\* The parsed body ({} when parse.body raised).
body ==
    LET b == parse_body(event)
    IN  IF b.kind = "return" THEN b.value ELSE EmptyDict

-----------------------------------------------------------------------------
(* The call of evaluate(event) *)

Init ==
    /\ event \in Events
    /\ evaluation_function \in BOOLEAN
    /\ pc = "evaluate"
    /\ params = None
    /\ result = None
    /\ index = 0
    /\ matches = <<>>
    /\ feedback = <<>>
    /\ warnings = <<>>
    /\ match = None
    /\ retval = None
    /\ raised = None
    /\ calls = <<>>
    /\ evaluated = <<>>
    /\ fn = <<>>
    /\ response = None
    /\ first_run = None

\* Faulty variant: the exception is answered as an error Response.
Raises_as_error(e) ==
    /\ pc' = "returned"
    /\ retval' = Response("eval", [error |-> e])
    /\ UNCHANGED raised

\* evaluate raises e.
Raises(e) ==
    /\ pc' = "raised"
    /\ raised' = e
    /\ UNCHANGED retval

\* evaluate returns Response(command="eval", result=res).
Returns(res) ==
    /\ pc' = "returned"
    /\ retval' = Response("eval", res)
    /\ UNCHANGED raised

\* evaluate up to the primary call: parse.body, validate.body, params, and
\* the check that an evaluation function is defined.
Begin ==
    /\ pc = "evaluate"
    /\ LET b == parse_body(event)
           v == validate_body(b.value)
       IN  IF b.kind = "raise" THEN Raises(b.exc) /\ UNCHANGED params
           ELSE IF v.kind = "raise" THEN Raises(v.exc) /\ UNCHANGED params
           ELSE /\ params' = Get(b.value, "params", EmptyDict)
                /\ IF ~evaluation_function
                   THEN Raises(EvaluationException(
                            [message |-> "Evaluation function is not defined."]))
                   ELSE pc' = "primary" /\ UNCHANGED <<retval, raised>>
    /\ UNCHANGED <<event, evaluation_function, result, index, matches,
                   feedback, warnings, match, calls, evaluated, fn>>
    /\ UNCHANGED <<response, first_run>>

\* Faulty variant: the call is made a second time.
Called_twice(site, a, o) ==
    /\ calls' = Append(Append(calls, [site |-> site, args |-> a]),
                       [site |-> site, args |-> a])
    /\ fn' = (a :> o) @@ fn

\* The evaluation function is called with arguments a and does o.
Called(site, a, o) ==
    /\ calls' = Append(calls, [site |-> site, args |-> a])
    /\ fn' = (a :> o) @@ fn

\* The primary call and what follows it when no case is evaluated.
Primary ==
    /\ pc = "primary"
    /\ LET a == Args(body["response"], body["answer"], params)
       IN  \E o \in OutcomesOf(a) :
             /\ Called([kind |-> "primary"], a, o)
             /\ IF o.kind = "raise"
                THEN Raises(o.exc) /\ UNCHANGED result
                ELSE IF ~Has(o.value, "is_correct")
                THEN Raises(Exception("KeyError", <<"is_correct">>))
                     /\ result' = o.value
                ELSE /\ result' = o.value
                     /\ IF runs_cases(o.value, params)
                        THEN pc' = "cases" /\ UNCHANGED <<retval, raised>>
                        ELSE Returns(no_cases_result(o.value))
    /\ UNCHANGED <<event, evaluation_function, params, index, matches,
                   feedback, warnings, match, evaluated>>
    /\ UNCHANGED <<response, first_run>>

\* Faulty variant: the loop goes on after a match, to the last case.
loop_ends_at_last_case(r, i, cs) == i + 1 = Len(cs)

\* find_first_matching_case leaves its loop after the case with result r.
loop_ends(r, i, cs) == r.is_correct \/ i + 1 = Len(cs)

\* One iteration of the loop of find_first_matching_case, evaluate_case
\* having returned or raised cr; after the last iteration, the rest of
\* get_case_feedback and of evaluate.
Iteration(cr) ==
    /\ evaluated' = Append(evaluated, [index |-> index, outcome |-> cr])
    /\ IF cr.kind = "raise"
       THEN /\ Raises(cr.exc)
            /\ UNCHANGED <<params, result, index, matches, feedback, warnings,
                           match>>
       ELSE LET r == cr.value
                ws == IF r.warning # None THEN Append(warnings, r.warning)
                      ELSE warnings
                ms == IF r.is_correct THEN Append(matches, index)
                      ELSE matches
                fbs == IF r.is_correct THEN Append(feedback, r.feedback)
                       ELSE feedback
            IN  /\ matches' = ms
                /\ feedback' = fbs
                /\ IF ~loop_ends(r, index, params["cases"])
                   THEN /\ index' = index + 1
                        /\ warnings' = ws
                        /\ UNCHANGED <<pc, params, result, match, retval,
                                       raised>>
                   ELSE LET g == get_case_feedback(params["cases"], ms, fbs, ws)
                            a == assemble(result, g.match, g.warnings)
                        IN  /\ warnings' = g.warnings
                            /\ match' = g.match
                            /\ params' = Put(params, "cases", g.cases)
                            /\ UNCHANGED index
                            /\ IF a.kind = "raise"
                               THEN Raises(a.exc) /\ UNCHANGED result
                               ELSE Returns(a.value) /\ result' = a.value

\* A case without answer or feedback: no call is made.
CaseMissingField ==
    /\ pc = "cases"
    /\ LET c == params["cases"][index + 1]
       IN  /\ missing_field(c)
           /\ Iteration(evaluate_case(params, c, index, None))
    /\ UNCHANGED <<event, evaluation_function, calls, fn, response, first_run>>

\* A case with answer and feedback: the evaluation function is called.
CaseCall ==
    /\ pc = "cases"
    /\ LET c == params["cases"][index + 1]
           a == Args(body["response"], c["answer"], combined_params(params, c))
       IN  /\ ~missing_field(c)
           /\ \E o \in OutcomesOf(a) :
                /\ Called([kind |-> "case", index |-> index], a, o)
                /\ Iteration(evaluate_case(params, c, index, o))
    /\ UNCHANGED <<event, evaluation_function, response, first_run>>

Next == Begin \/ Primary \/ CaseMissingField \/ CaseCall

Spec == Init /\ [][Next]_vars

-----------------------------------------------------------------------------
(* src/handler.py: handler(event) and the commands it dispatches to *)

\* Faulty variant: without a command header there is no command.
command_without_default ==
    Get(Get(event, "headers", EmptyDict), "command", "")

\* headers.get("command", "eval") of the event
command == Get(Get(event, "headers", EmptyDict), "command", "eval")

handle_unknown_command(cmd) ==
    [error |-> [message |-> "Unknown command '" \o cmd \o "'."]]

\* parse.parse_body(event): the pair (body, parse_error)
handler_parse_body(ev) ==
    LET r == parse_body(ev)
    IN  IF r.kind = "return" THEN [body |-> r.value, parse_error |-> None]
        ELSE [body |-> EmptyDict,
              parse_error |-> [message |-> r.exc.message]]

\* validate(validator, body) for a schema that requires the keys of required
validate(required, b) ==
    IF \A k \in required : Has(b, k) THEN None
    ELSE [message |-> "'" \o (CHOOSE k \in required : ~Has(b, k))
                      \o "' is a required property",
          schema_path |-> <<"required">>,
          instance_path |-> <<>>]

request_error_of(e) ==
    IF e = None THEN None
    ELSE [message |-> "Schema threw an error when validating the request body.",
          error_thrown |-> e]

validate_eval_request(b) == request_error_of(validate({"response", "answer"}, b))

validate_preview_request(b) == request_error_of(validate({"response"}, b))

\* The response schemas: an error object with a message, or the command
\* with its result.
valid_response(cmd, r) ==
    \/ DOMAIN r = {"error"} /\ Has(r["error"], "message")
    \/ DOMAIN r = {"command", "result"} /\ r["command"] = cmd

\* validate_response and validate_<command>_response
validate_response(cmd, r) ==
    IF valid_response(cmd, r) THEN None
    ELSE [message |-> "Schema threw an error when validating the response body.",
          error_thrown |-> [message |-> "'error' is a required property"],
          raw_response_body |-> r]

\* Faulty variant: a structured fault is reported like any other exception.
fault_error_unstructured(what, e) ==
    [message |-> "An exception was raised while executing the "
                 \o what \o " function.",
     detail |-> e.cls]

\* The error of a fault of the evaluation (preview) function.
fault_error(what, e) ==
    IF e.cls = "EvaluationException" THEN e.error_dict
    ELSE [message |-> "An exception was raised while executing the "
                      \o what \o " function.",
          detail |-> IF Str(e) # "" THEN Str(e) ELSE Repr(e)]

\* One iteration of the loop of feedback_from_cases for the case c at index
\* i, given the outcome o of its call of the evaluation function: whether
\* the case matched, the function's feedback, and the warning added.
feedback_from_cases_step(c, i, o) ==
    IF ~Has(c, "answer")
    THEN CaseResult(FALSE, "", [case |-> i, message |-> "Missing answer field"])
    ELSE IF ~Has(c, "feedback")
    THEN CaseResult(FALSE, "", [case |-> i, message |-> "Missing feedback field"])
    ELSE IF o.kind = "raise"
    THEN IF o.exc.cls = "EvaluationException"
         THEN CaseResult(FALSE, "", Merge([case |-> i], o.exc.error_dict))
         ELSE CaseResult(FALSE, "", exception_warning(i, o.exc))
    ELSE IF ~Has(o.value, "is_correct")
    THEN CaseResult(FALSE, "",
           [case |-> i, message |-> "is_correct missing from function output"])
    ELSE IF o.value["is_correct"]
    THEN CaseResult(TRUE, Get(o.value, "feedback", ""), None)
    ELSE CaseResult(FALSE, "", None)

\* feedback_from_cases after its loop: the matched case, the warnings and
\* the case list as it leaves them; matched_case["params"] may raise.
feedback_from_cases(cs, ms, fbs, ws) ==
    IF Len(ms) = 0
    THEN Ret([match |-> None, warnings |-> ws, cases |-> cs])
    ELSE LET m1 == Put(cs[ms[1] + 1], "id", ms[1])
         IN  IF ~Has(m1, "params")
             THEN Raise(Exception("KeyError", <<"params">>))
             ELSE LET separator == IF Len(fbs[1]) > 0 THEN "<br />" ELSE ""
                      m2 == IF ~Get(m1["params"], "override_eval_feedback", FALSE)
                            THEN Put(m1, "feedback",
                                     Get(m1, "feedback", "") \o separator
                                     \o fbs[1])
                            ELSE m1
                  IN  Ret([match |-> m2,
                           warnings |-> IF Len(ms) = 1 THEN ws
                                        ELSE Append(ws,
                                               multiple_matches_warning(ms)),
                           cases |-> [cs EXCEPT ![ms[1] + 1] = m2]])

\* handle_eval_command after feedback_from_cases has returned; int(mark) may
\* raise.
handle_eval_assemble(res, m, ws) ==
    LET r1 == IF m = None THEN Ret(res)
              ELSE LET r == Put(Put(res, "feedback", m["feedback"]),
                                "matched_case", m["id"])
                   IN  IF Has(m, "mark")
                       THEN LET n == int(m["mark"])
                            IN  IF n.kind = "raise" THEN n
                                ELSE Ret(Put(r, "is_correct", bool(n.value)))
                       ELSE Ret(r)
    IN  IF r1.kind = "raise" THEN r1
        ELSE IF Len(ws) # 0 THEN Ret(Put(r1.value, "warnings", ws))
        ELSE r1

HandlerCommands ==
    {"eval", "grade", "preview", "healthcheck", "docs-dev", "docs",
     "docs-user", "not a command"}

HandlerCases ==
    {[feedback |-> "should be 'hello'."], [answer |-> "hello"],
     [answer |-> "hello", feedback |-> "should be 'hello'."],
     [answer |-> "hello", feedback |-> "should be 'hello'.",
      params |-> EmptyDict],
     [answer |-> "hello", feedback |-> "should be 'hello'.",
      params |-> [override_eval_feedback |-> TRUE]],
     [answer |-> "yes", feedback |-> "should be 'yes'.",
      mark |-> StrMark("abc"), params |-> [override_eval_feedback |-> FALSE]],
     [answer |-> "yes", feedback |-> "should be 'yes'.",
      mark |-> IntMark(1), params |-> [force |-> TRUE]]}

HandlerCaseLists == UNION {[1..n -> HandlerCases] : n \in 0..MaxCases}

HandlerBodies ==
    {[response |-> "hello"], [response |-> "hello", answer |-> "world!"],
     [response |-> "hello", answer |-> "world!", params |-> EmptyDict]}
    \cup {[response |-> "hello", answer |-> "world!", params |-> [cases |-> cs]] :
             cs \in HandlerCaseLists}

\* Every body arrives with the command eval; the other commands, and the
\* event without headers, arrive with the bodies of the tests.
HandlerEvents ==
    {[random |-> "metadata"], [body |-> PyStr(NotJson)]}
    \cup {[body |-> PyDict(b), headers |-> [command |-> "eval"]] :
             b \in HandlerBodies}
    \cup {[body |-> PyStr(t), headers |-> [command |-> c]] :
             t \in {NotJson, JsonBody}, c \in HandlerCommands}
    \cup {[body |-> PyDict(b), headers |-> h] :
             b \in {x \in HandlerBodies :
                      Has(x, "params") => Len(Get(x["params"], "cases", <<>>)) < MaxCases},
             h \in {EmptyDict, [command |-> "grade"], [command |-> "preview"]}}

PreviewOutcomes ==
    {Ret([preview |-> "hello"]),
     Raise(EvaluationException([message |-> "cannot preview"])),
     Raise(Exception("ValueError", <<>>))}

\* docs.send_file(filepath) for a file that exists or not
DocsResponse(filepath, isfile) ==
    [statusCode |-> 200,
     body |-> IF isfile THEN "base64 of " \o filepath
              ELSE filepath \o " missing from evaluation function files",
     headers |-> ("Content-Type" :> "application/octet-stream"),
     isBase64Encoded |-> isfile]

HandlerInit ==
    /\ event \in HandlerEvents
    /\ evaluation_function = TRUE
    /\ pc = "handler"
    /\ params = None
    /\ result = None
    /\ index = 0
    /\ matches = <<>>
    /\ feedback = <<>>
    /\ warnings = <<>>
    /\ match = None
    /\ retval = None
    /\ raised = None
    /\ calls = <<>>
    /\ evaluated = <<>>
    /\ fn = <<>>
    /\ response = None
    /\ first_run = None

\* The command's handle_ function returns r to handler().
Handled(r) ==
    /\ pc' = "respond"
    /\ response' = r

\* command == "healthcheck": the result of healthcheck() is not looked at.
HandleHealthcheck ==
    /\ pc = "handler"
    /\ command = "healthcheck"
    /\ \E passed \in BOOLEAN :
           Handled([command |-> "healthcheck",
                    result |-> [tests_passed |-> passed]])
    /\ UNCHANGED <<event, evaluation_function, params, result, index, matches,
                   feedback, warnings, match, retval, raised, calls,
                   evaluated, fn, first_run>>

\* command == "docs-dev", "docs" or "docs-user": the file is returned as it
\* is, unvalidated.
HandleDocs ==
    /\ pc = "handler"
    /\ command \in {"docs-dev", "docs", "docs-user"}
    /\ \E isfile \in BOOLEAN :
           retval' = DocsResponse(IF command = "docs-user"
                                  THEN "app/docs/user.md"
                                  ELSE "app/docs/dev.md", isfile)
    /\ pc' = "handler returned"
    /\ UNCHANGED <<event, evaluation_function, params, result, index, matches,
                   feedback, warnings, match, raised, calls, evaluated, fn,
                   response, first_run>>

\* Any other command.
HandleUnknown ==
    /\ pc = "handler"
    /\ command \notin {"healthcheck", "eval", "grade", "preview", "docs-dev",
                       "docs", "docs-user"}
    /\ Handled(handle_unknown_command(command))
    /\ UNCHANGED <<event, evaluation_function, params, result, index, matches,
                   feedback, warnings, match, retval, raised, calls,
                   evaluated, fn, first_run>>

\* command == "preview": handle_preview_command(event).
HandlePreview ==
    /\ pc = "handler"
    /\ command = "preview"
    /\ LET b == handler_parse_body(event)
           request_error == validate_preview_request(b.body)
       IN  IF b.parse_error # None
           THEN Handled([error |-> b.parse_error]) /\ UNCHANGED calls
           ELSE IF request_error # None
           THEN Handled([error |-> request_error]) /\ UNCHANGED calls
           ELSE \E o \in PreviewOutcomes :
                  /\ calls' = Append(calls,
                        [site |-> [kind |-> "preview"],
                         args |-> [response |-> b.body["response"],
                                   params |-> Get(b.body, "params", EmptyDict)]])
                  /\ IF o.kind = "raise"
                     THEN Handled([error |-> fault_error("preview", o.exc)])
                     ELSE Handled([command |-> "preview", result |-> o.value])
    /\ UNCHANGED <<event, evaluation_function, params, result, index, matches,
                   feedback, warnings, match, retval, raised, evaluated, fn,
                   first_run>>

\* command == "eval" or "grade": handle_eval_command(event) up to its call
\* of the evaluation function.
HandleEval ==
    /\ pc = "handler"
    /\ command \in {"eval", "grade"}
    /\ LET b == handler_parse_body(event)
           request_error == validate_eval_request(b.body)
       IN  IF b.parse_error # None
           THEN Handled([error |-> b.parse_error]) /\ UNCHANGED params
           ELSE IF request_error # None
           THEN Handled([error |-> request_error]) /\ UNCHANGED params
           ELSE /\ params' = Get(b.body, "params", EmptyDict)
                /\ pc' = "handle_eval"
                /\ UNCHANGED response
    /\ UNCHANGED <<event, evaluation_function, result, index, matches,
                   feedback, warnings, match, retval, raised, calls,
                   evaluated, fn, first_run>>

\* handle_eval_command: the primary call, its faults, and the return when
\* there are no cases.
HandlePrimary ==
    /\ pc = "handle_eval"
    /\ LET a == Args(body["response"], body["answer"], params)
       IN  \E o \in OutcomesOf(a) :
             /\ Called([kind |-> "primary"], a, o)
             /\ IF o.kind = "raise"
                THEN /\ Handled([error |-> fault_error("evaluation", o.exc)])
                     /\ UNCHANGED result
                ELSE /\ result' = o.value
                     /\ IF Len(Get(params, "cases", <<>>)) = 0
                        THEN Handled([command |-> "eval",
                                      result |-> no_cases_result(o.value)])
                        ELSE pc' = "feedback_from_cases" /\ UNCHANGED response
    /\ UNCHANGED <<event, evaluation_function, params, index, matches,
                   feedback, warnings, match, retval, raised, evaluated,
                   first_run>>

\* One iteration of the loop of feedback_from_cases with the result r; after
\* the last one, the rest of feedback_from_cases and of handle_eval_command.
HandlerIteration(r) ==
    LET ws == IF r.warning # None THEN Append(warnings, r.warning)
              ELSE warnings
        ms == IF r.is_correct THEN Append(matches, index) ELSE matches
        fbs == IF r.is_correct THEN Append(feedback, r.feedback) ELSE feedback
    IN  /\ evaluated' = Append(evaluated, [index |-> index, outcome |-> Ret(r)])
        /\ matches' = ms
        /\ feedback' = fbs
        /\ IF index + 1 < Len(params["cases"])
           THEN /\ index' = index + 1
                /\ warnings' = ws
                /\ UNCHANGED <<pc, params, result, match, raised, response>>
           ELSE LET g == feedback_from_cases(params["cases"], ms, fbs, ws)
                IN  /\ UNCHANGED index
                    /\ IF g.kind = "raise"
                       THEN /\ pc' = "handler raised"
                            /\ raised' = g.exc
                            /\ warnings' = ws
                            /\ UNCHANGED <<params, result, match, response>>
                       ELSE LET a == handle_eval_assemble(result, g.value.match,
                                                          g.value.warnings)
                            IN  /\ warnings' = g.value.warnings
                                /\ match' = g.value.match
                                /\ params' = Put(params, "cases", g.value.cases)
                                /\ IF a.kind = "raise"
                                   THEN /\ pc' = "handler raised"
                                        /\ raised' = a.exc
                                        /\ UNCHANGED <<result, response>>
                                   ELSE /\ result' = a.value
                                        /\ Handled([command |-> "eval",
                                                    result |-> a.value])
                                        /\ UNCHANGED raised

\* A case without answer or without feedback: no call is made.
HandlerCaseMissingField ==
    /\ pc = "feedback_from_cases"
    /\ LET c == params["cases"][index + 1]
       IN  /\ ~Has(c, "answer") \/ ~Has(c, "feedback")
           /\ HandlerIteration(feedback_from_cases_step(c, index, None))
    /\ UNCHANGED <<event, evaluation_function, retval, calls, fn, first_run>>

\* A case with answer and feedback: the evaluation function is called.
HandlerCaseCall ==
    /\ pc = "feedback_from_cases"
    /\ LET c == params["cases"][index + 1]
           a == Args(body["response"], c["answer"],
                     Merge(params, Get(c, "params", EmptyDict)))
       IN  /\ Has(c, "answer") /\ Has(c, "feedback")
           /\ \E o \in OutcomesOf(a) :
                /\ Called([kind |-> "case", index |-> index], a, o)
                /\ HandlerIteration(feedback_from_cases_step(c, index, o))
    /\ UNCHANGED <<event, evaluation_function, retval, first_run>>

\* handler() validates the response and returns it, or the validation error.
Respond ==
    /\ pc = "respond"
    /\ LET response_error ==
               validate_response(IF command = "grade" THEN "eval" ELSE command,
                                 response)
       IN  retval' = IF response_error # None THEN [error |-> response_error]
                     ELSE response
    /\ pc' = "handler returned"
    /\ UNCHANGED <<event, evaluation_function, params, result, index, matches,
                   feedback, warnings, match, raised, calls, evaluated, fn,
                   response, first_run>>

HandlerNext ==
    \/ HandleHealthcheck
    \/ HandleDocs
    \/ HandleUnknown
    \/ HandlePreview
    \/ HandleEval
    \/ HandlePrimary
    \/ HandlerCaseMissingField
    \/ HandlerCaseCall
    \/ Respond

HandlerSpec == HandlerInit /\ [][HandlerNext]_vars

\* A request arrives at commands.evaluate or at handler.
BothInit == Init \/ HandlerInit

BothNext == Next \/ HandlerNext

Both == BothInit /\ [][BothNext]_vars

-----------------------------------------------------------------------------
(* The request as supplied, and what is known of the evaluation function *)

\* params and params["cases"] as the caller supplied them.
params0 == Get(body, "params", EmptyDict)

cases0 == Get(params0, "cases", <<>>)

lacks_field(c) == "answer" \notin DOMAIN c \/ "feedback" \notin DOMAIN c

\* The outcome of the primary call, once made.
primary_called == Len(calls) >= 1 /\ calls[1].site.kind = "primary"

primary_outcome == fn[calls[1].args]

is_true(o) ==
    o.kind = "return" /\ Has(o.value, "is_correct") /\ o.value["is_correct"]

primary_correct == primary_called /\ is_true(primary_outcome)

primary_incorrect ==
    /\ primary_called
    /\ primary_outcome.kind = "return"
    /\ Has(primary_outcome.value, "is_correct")
    /\ ~primary_outcome.value["is_correct"]

\* The arguments of the call for the case at index i of the supplied list.
CaseArgs(i) ==
    Args(body["response"], cases0[i + 1]["answer"],
         Get(cases0[i + 1], "params", EmptyDict) @@ params0)

known(i) == ~lacks_field(cases0[i + 1]) /\ CaseArgs(i) \in DOMAIN fn

\* The case at index i matches the response: the evaluation function returns
\* is_correct true for it.
is_match(i) == known(i) /\ is_true(fn[CaseArgs(i)])

\* The case at index i does not match the response.
no_match(i) ==
    lacks_field(cases0[i + 1]) \/ (known(i) /\ ~is_true(fn[CaseArgs(i)]))

first_match(i) == is_match(i) /\ \A j \in 0..(i - 1) : no_match(j)

\* get_case_feedback has returned (evaluate may still raise in int(mark)).
resolved ==
    /\ pc \in {"returned", "raised"}
    /\ Len(evaluated) > 0
    /\ evaluated[Len(evaluated)].outcome.kind = "return"

has_warning(ws, w) == \E k \in DOMAIN ws : ws[k] = w

warnings_of_case(ws, i) ==
    {k \in DOMAIN ws : Has(ws[k], "case") /\ ws[k]["case"] = i}

-----------------------------------------------------------------------------
(* A second run of get_case_feedback on the same request *)

\* Faulty variant: the second run is given the list as the first left it.
second_run_params_live == params

\* The params, and in them the case list, given to the second run: as the
\* caller supplied them to the first.
second_run_params == params0

\* get_case_feedback has returned; it is called again, from evaluate, with
\* the same response and the same evaluation function.
Again ==
    /\ pc \in {"returned", "raised"}
    /\ resolved
    /\ first_run = None
    /\ first_run' = [match |-> match, warnings |-> warnings,
                     matches |-> matches, feedback |-> feedback]
    /\ params' = second_run_params
    /\ result' = primary_outcome.value
    /\ index' = 0
    /\ matches' = <<>>
    /\ feedback' = <<>>
    /\ warnings' = <<>>
    /\ match' = None
    /\ retval' = None
    /\ raised' = None
    /\ pc' = "cases"
    /\ UNCHANGED <<event, evaluation_function, calls, evaluated, fn, response>>

TwiceNext == Next \/ Again

Twice == Init /\ [][TwiceNext]_vars

-----------------------------------------------------------------------------
(* Claims *)

\* C1: when the primary evaluation is incorrect and the cases at indices 0
\* and 1 (and no others) match, the result carries the warning "Cases 0, 1
\* were matched. Only the first one's feedback was returned" and
\* matched_case is 0.
C1_TwoMatchesWarned ==
    ( /\ pc = "returned"
      /\ primary_incorrect
      /\ Len(cases0) >= 2
      /\ is_match(0)
      /\ is_match(1)
      /\ \A i \in 2..(Len(cases0) - 1) : ~is_match(i) )
    => /\ Has(retval.result, "warnings")
       /\ has_warning(retval.result["warnings"],
            [message |-> "Cases 0, 1 were matched. Only the first one's feedback was returned"])
       /\ Has(retval.result, "matched_case")
       /\ retval.result["matched_case"] = 0

\* C2: the first case that matches, when it carries mark 0 (mark 1), makes
\* the returned is_correct False (True) whether the primary evaluation was
\* correct or not; matched_case is its index and feedback its feedback.
C2_MarkForcesIsCorrect ==
    \A i \in 0..(Len(cases0) - 1) :
        LET c == cases0[i + 1]
        IN  ( /\ pc = "returned"
              /\ first_match(i)
              /\ Has(c, "mark")
              /\ c["mark"].type = "int"
              /\ c["mark"].val \in {0, 1}
              /\ ~override_eval_feedback(c) )
            => /\ retval.result["is_correct"] = (c["mark"].val = 1)
               /\ Has(retval.result, "matched_case")
               /\ retval.result["matched_case"] = i
               /\ Has(retval.result, "feedback")
               /\ retval.result["feedback"] = c["feedback"]

C4_MissingFieldWarning ==
    \A k \in DOMAIN evaluated :
        LET i == evaluated[k].index
        IN  lacks_field(cases0[i + 1])
            => /\ evaluated[k].outcome =
                    Ret(CaseResult(FALSE, "",
                          [case |-> i,
                           message |-> "Missing answer/feedback field"]))
               /\ \A n \in DOMAIN calls :
                      calls[n].site # [kind |-> "case", index |-> i]

\* evaluate_case was called for a case at index 1 that has an answer and
\* lacks feedback, after a case that was evaluated by the function.
C4_Witness ==
    \E k \in DOMAIN evaluated :
        /\ evaluated[k].index = 1
        /\ Has(cases0[2], "answer")
        /\ ~Has(cases0[2], "feedback")
        /\ Len(calls) = 2

\* C5: when get_case_feedback has returned, every index i whose case lacks
\* answer or feedback has exactly one warning with case = i among the
\* returned warnings and is not the matched index, wherever it sits in the
\* list.
C5_MalformedAlwaysWarned ==
    resolved
    => \A i \in 0..(Len(cases0) - 1) :
           lacks_field(cases0[i + 1])
           => /\ Cardinality(warnings_of_case(warnings, i)) = 1
              /\ (match # None => match["id"] # i)

\* C6: the id on the match get_case_feedback returns is the position, in the
\* list as supplied, of the first case whose evaluation returned is_correct
\* true: it is within the list, that case has answer and feedback, every
\* case below it was evaluated and did not match, and the result's
\* matched_case is that position.
C6_MatchIdIsFirstMatch ==
    (resolved /\ match # None)
    => /\ Has(match, "id")
       /\ match["id"] \in 0..(Len(cases0) - 1)
       /\ ~lacks_field(cases0[match["id"] + 1])
       /\ match["answer"] = cases0[match["id"] + 1]["answer"]
       /\ params["cases"][match["id"] + 1] = match
       /\ first_match(match["id"])
       /\ \A j \in 0..match["id"] :
              \E k \in DOMAIN evaluated :
                  /\ evaluated[k].index = j
                  /\ evaluated[k].outcome.kind = "return"
                  /\ evaluated[k].outcome.value.is_correct = (j = match["id"])
       /\ pc = "returned"
          => /\ Has(retval.result, "matched_case")
             /\ retval.result["matched_case"] = match["id"]

\* The case at index 1 is the match, after one that did not match.
C6_Witness ==
    /\ pc = "returned"
    /\ match # None
    /\ match["id"] = 1
    /\ ~lacks_field(cases0[1])
    /\ retval.result["feedback"] = cases0[2]["feedback"]

\* C7: when evaluate returns after an incorrect primary evaluation and the
\* first (so the only evaluated) matching case has no truthy
\* override_eval_feedback, result.feedback is that case's feedback as
\* supplied, whatever feedback the function returned.
C7_FeedbackVerbatim ==
    \A i \in 0..(Len(cases0) - 1) :
        ( /\ pc = "returned"
          /\ primary_incorrect
          /\ first_match(i)
          /\ ~Get(Get(cases0[i + 1], "params", EmptyDict),
                  "override_eval_feedback", FALSE) )
        => /\ Has(retval.result, "feedback")
           /\ retval.result["feedback"] = cases0[i + 1]["feedback"]

\* The primary call and the call for the matching case both returned
\* feedback of their own.
C7_Witness ==
    /\ pc = "returned"
    /\ primary_incorrect
    /\ Has(primary_outcome.value, "feedback")
    /\ Len(cases0) > 0
    /\ first_match(0)
    /\ Has(fn[CaseArgs(0)].value, "feedback")
    /\ ~Has(cases0[1], "params")
    /\ retval.result["feedback"] = cases0[1]["feedback"]

\* The call of evaluate_case logged at k was for a case with answer and
\* feedback, and the evaluation function raised an exception other than
\* EvaluationException in it.
unstructured_fault(k) ==
    LET i == evaluated[k].index
    IN  /\ ~lacks_field(cases0[i + 1])
        /\ fn[CaseArgs(i)].kind = "raise"
        /\ fn[CaseArgs(i)].exc.cls # "EvaluationException"

\* The warning evaluate_case is to give for the call logged at k.
unstructured_warning(k) ==
    LET i == evaluated[k].index
        e == fn[CaseArgs(i)].exc
    IN  [case |-> i,
         message |-> "An exception was raised while executing the evaluation function.",
         detail |-> IF Str(e) # "" THEN Str(e) ELSE Repr(e)]

\* C8 as stated: once the evaluation function has raised an unstructured
\* exception in the call for case i, evaluate does not raise; the case is no
\* match and the result's warnings hold {case: i, message: "An exception was
\* raised while executing the evaluation function.", detail: str(e) or,
\* when that is empty, repr(e)}.
C8_FaultThenNoRaise ==
    \A k \in DOMAIN evaluated :
        unstructured_fault(k)
        => /\ pc # "raised"
           /\ evaluated[k].outcome =
                Ret(CaseResult(FALSE, "", unstructured_warning(k)))
           /\ pc = "returned"
              => /\ Has(retval.result, "warnings")
                 /\ has_warning(retval.result["warnings"],
                                unstructured_warning(k))

\* C8 as amended: the unstructured exception e of the call for case i does
\* not leave evaluate_case nor evaluate: evaluate_case returns a CaseResult
\* that is no match and carries the warning above, the warning is among the
\* warnings from then on, an exception evaluate raises later is not e, and
\* whenever evaluate returns the result's warnings hold the warning.
C8_FaultContained ==
    \A k \in DOMAIN evaluated :
        unstructured_fault(k)
        => /\ evaluated[k].outcome =
                Ret(CaseResult(FALSE, "", unstructured_warning(k)))
           /\ \A n \in DOMAIN matches : matches[n] # evaluated[k].index
           /\ has_warning(warnings, unstructured_warning(k))
           /\ raised # fn[CaseArgs(evaluated[k].index)].exc
           /\ pc = "returned"
              => /\ Has(retval.result, "warnings")
                 /\ has_warning(retval.result["warnings"],
                                unstructured_warning(k))

\* evaluate has returned after an exception with an empty string form was
\* raised in the call for the case at index 1.
C8_Witness ==
    /\ pc = "returned"
    /\ \E k \in DOMAIN evaluated :
           /\ evaluated[k].index = 1
           /\ unstructured_fault(k)
           /\ unstructured_warning(k).detail = "ValueError()"

\* C9: every call of the evaluation function for a case sees the request's
\* params with the case's params merged over them, one level deep: the keys
\* of both, the case's value for each key of the case's params and the
\* request's value for every other key; and the request's params mapping
\* keeps its keys and values (other than the content of the matched case).
C9_CaseParamsWin ==
    /\ \A n \in DOMAIN calls :
           calls[n].site.kind = "case"
           => LET c == cases0[calls[n].site.index + 1]
                  cp == Get(c, "params", EmptyDict)
                  seen == calls[n].args.params
              IN  /\ calls[n].args.answer = c["answer"]
                  /\ DOMAIN seen = (DOMAIN params0) \cup (DOMAIN cp)
                  /\ \A x \in DOMAIN cp : seen[x] = cp[x]
                  /\ \A x \in (DOMAIN params0) \ (DOMAIN cp) :
                         seen[x] = params0[x]
    /\ primary_called
       => /\ DOMAIN params = DOMAIN params0
          /\ \A x \in (DOMAIN params0) \ {"cases"} : params[x] = params0[x]
          /\ pc = "cases" => params = params0

\* A request with force True and a case with force False: the call for the
\* case saw force False, and the request's params still say True.
C9_Witness ==
    \E n \in DOMAIN calls :
        /\ calls[n].site.kind = "case"
        /\ Has(params0, "force")
        /\ params0["force"] = TRUE
        /\ Has(calls[n].args.params, "force")
        /\ calls[n].args.params["force"] = FALSE
        /\ params["force"] = TRUE
        /\ pc = "returned"

\* C10: when the matched case's override_eval_feedback is truthy, the
\* feedback of the match get_case_feedback returns is the case's feedback,
\* then "<br />" only if the function's feedback for the case is not empty,
\* then the function's feedback.
C10_SeparatorOnlyIfFeedback ==
    (resolved /\ match # None)
    => LET c == cases0[match["id"] + 1]
       IN  Get(Get(c, "params", EmptyDict), "override_eval_feedback", FALSE)
           => match["feedback"] =
                c["feedback"]
                \o (IF feedback[1] # "" THEN "<br />" ELSE "")
                \o feedback[1]

\* The mark of the matched case, once get_case_feedback has returned it.
matched_mark == match["mark"]

\* C11 as stated: the marks 0, 1, "0" and "1" of a matched case make the
\* returned is_correct False, True, False, True, and every other string
\* mark makes evaluate raise the conversion fault.
C11_OtherStringRaises ==
    (resolved /\ match # None /\ Has(match, "mark"))
    => /\ matched_mark \in {IntMark(0), StrMark("0")}
          => pc = "returned" /\ retval.result["is_correct"] = FALSE
       /\ matched_mark \in {IntMark(1), StrMark("1")}
          => pc = "returned" /\ retval.result["is_correct"] = TRUE
       /\ (matched_mark.type = "str" /\ matched_mark.val \notin {"0", "1"})
          => pc = "raised" /\ raised.cls = "ValueError"

\* C11 as amended: the marks 0, 1, "0" and "1" of a matched case make the
\* returned is_correct False, True, False, True; a string mark that is
\* another integer literal is accepted too and gives bool(int(mark)), True
\* for "2"; a string mark that is no integer literal makes evaluate raise
\* the ValueError of int(), with no Response returned and no warning made of
\* it.
C11_MarkCoercion ==
    (resolved /\ match # None /\ Has(match, "mark"))
    => /\ matched_mark \in {IntMark(0), StrMark("0")}
          => pc = "returned" /\ retval.result["is_correct"] = FALSE
       /\ matched_mark \in {IntMark(1), StrMark("1")}
          => pc = "returned" /\ retval.result["is_correct"] = TRUE
       /\ matched_mark = StrMark("2")
          => pc = "returned" /\ retval.result["is_correct"] = TRUE
       /\ matched_mark = StrMark("abc")
          => /\ pc = "raised"
             /\ raised = Exception("ValueError",
                   <<"invalid literal for int() with base 10: 'abc'">>)
             /\ retval = None
             /\ \A k \in DOMAIN warnings :
                    Has(warnings[k], "detail")
                    => warnings[k]["detail"] # Str(raised)

\* The matched case, after one that was warned about, has the mark "abc"
\* and evaluate has raised.
C11_Witness ==
    /\ resolved
    /\ match # None
    /\ Has(match, "mark")
    /\ matched_mark = StrMark("abc")
    /\ match["id"] = 1
    /\ Len(warnings) = 1
    /\ pc = "raised"

\* C12: once the primary call has returned an incorrect result, evaluate
\* does not raise whatever the cases and the outcomes of the calls for them:
\* it returns a Response, and every case whose call raised or returned no
\* is_correct has a warning in result.warnings.
C12_NeverRaisesAfterPrimary ==
    primary_incorrect
    => /\ pc # "raised"
       /\ pc = "returned"
          => \A k \in DOMAIN evaluated :
                 LET i == evaluated[k].index
                 IN  (~lacks_field(cases0[i + 1]) /\ ~is_true(fn[CaseArgs(i)])
                      /\ fn[CaseArgs(i)] \notin
                            {Ret([is_correct |-> FALSE]),
                             Ret([is_correct |-> FALSE, feedback |-> "try again"])})
                     => /\ Has(retval.result, "warnings")
                        /\ warnings_of_case(retval.result["warnings"], i) # {}

\* C13: when the evaluation function raises in the primary call, be it an
\* EvaluationException or any other exception, evaluate raises that very
\* exception: no Response is returned, no case is evaluated and the
\* function is not called again.
C13_PrimaryFaultPropagates ==
    (primary_called /\ primary_outcome.kind = "raise")
    => /\ pc = "raised"
       /\ raised = primary_outcome.exc
       /\ retval = None
       /\ evaluated = <<>>
       /\ Len(calls) = 1

\* The primary call of a request with cases raised an EvaluationException.
C13_Witness ==
    /\ primary_called
    /\ primary_outcome.kind = "raise"
    /\ primary_outcome.exc.cls = "EvaluationException"
    /\ Len(cases0) > 0
    /\ pc = "raised"

\* The request has no cases key in its params, or an empty cases list.
no_cases == ~Has(params0, "cases") \/ Len(params0["cases"]) = 0

\* C14 as stated: once the primary call of a request without cases has
\* returned, the evaluation function was called that one time, no case was
\* evaluated, and evaluate and handle_eval_command each return the primary
\* result as it is, with no warnings, feedback or matched_case added.
C14_NoCasesUnchanged ==
    (primary_called /\ no_cases /\ primary_outcome.kind = "return")
    => /\ Len(calls) = 1
       /\ evaluated = <<>>
       /\ pc \in {"respond", "handler returned"}
          => response = [command |-> "eval", result |-> primary_outcome.value]
       /\ pc \notin {"respond", "handler returned"}
          => /\ pc = "returned"
             /\ retval = Response("eval", primary_outcome.value)

\* C14 as amended: the same, except that evaluate raises KeyError and
\* returns nothing when the primary result has no is_correct, which
\* handle_eval_command returns like any other result.
C14_NoCasesUnchangedOrKeyError ==
    (primary_called /\ no_cases /\ primary_outcome.kind = "return")
    => /\ Len(calls) = 1
       /\ evaluated = <<>>
       /\ pc \in {"respond", "handler returned"}
          => response = [command |-> "eval", result |-> primary_outcome.value]
       /\ pc \notin {"respond", "handler returned"}
          => IF Has(primary_outcome.value, "is_correct")
             THEN /\ pc = "returned"
                  /\ retval = Response("eval", primary_outcome.value)
             ELSE /\ pc = "raised"
                  /\ raised = Exception("KeyError", <<"is_correct">>)
                  /\ retval = None

\* handle_eval_command has returned the incorrect primary result, feedback
\* included, of a request with an empty cases list.
C14_Witness ==
    /\ pc = "respond"
    /\ Has(params0, "cases")
    /\ Len(params0["cases"]) = 0
    /\ primary_called
    /\ primary_outcome = Ret([is_correct |-> FALSE, feedback |-> "try again"])
    /\ response["result"] = primary_outcome.value

\* evaluate has returned the incorrect primary result, feedback included, of
\* a request with an empty cases list.
C14_WitnessEvaluate ==
    /\ pc = "returned"
    /\ Has(params0, "cases")
    /\ Len(params0["cases"]) = 0
    /\ primary_called
    /\ primary_outcome = Ret([is_correct |-> FALSE, feedback |-> "try again"])
    /\ retval.result = primary_outcome.value

\* The calls of evaluate_case that returned a warning.
produced == {k \in DOMAIN evaluated : evaluated[k].outcome.value.warning # None}

\* C15: when evaluate returns after going through the cases, the result has
\* the key warnings if and only if some case produced a warning, match or no
\* match; the value is then the list get_case_feedback returned, one entry
\* per warning produced, and never an empty list.
C15_WarningsIffProduced ==
    (pc = "returned" /\ Len(evaluated) > 0)
    => /\ Has(retval.result, "warnings") <=> produced # {}
       /\ Has(retval.result, "warnings")
          => /\ retval.result["warnings"] = warnings
             /\ Len(retval.result["warnings"]) = Cardinality(produced)
             /\ retval.result["warnings"] # <<>>

\* A case was warned about and the next one matched: the result has both
\* the warnings and the match.
C15_Witness ==
    /\ pc = "returned"
    /\ Len(evaluated) = 2
    /\ produced = {1}
    /\ Has(retval.result, "matched_case")
    /\ Has(retval.result, "warnings")

\* A request whose cases neither matched nor were warned about.
C15_WitnessNone ==
    /\ pc = "returned"
    /\ Len(evaluated) = 2
    /\ produced = {}
    /\ match = None
    /\ ~Has(retval.result, "warnings")

C17_MissingFlagWarning ==
    \A k \in DOMAIN evaluated :
        LET i == evaluated[k].index
        IN  ( /\ ~lacks_field(cases0[i + 1])
              /\ fn[CaseArgs(i)].kind = "return"
              /\ ~Has(fn[CaseArgs(i)].value, "is_correct") )
            => evaluated[k].outcome =
                 Ret(CaseResult(FALSE, "",
                       [case |-> i,
                        message |-> "is_correct missing from function output"]))

\* The event has no command header.
no_command_header == ~Has(Get(event, "headers", EmptyDict), "command")

\* What handler() answers to an eval command: the parse error, the request
\* error, or what follows the primary call with the body's response, answer
\* and params, under the command "eval".
answered_as_eval ==
    IF parse_body(event).kind = "raise"
    THEN retval = [error |-> [message |-> parse_body(event).exc.message]]
         /\ calls = <<>>
    ELSE IF validate_eval_request(body) # None
    THEN retval = [error |-> validate_eval_request(body)] /\ calls = <<>>
    ELSE /\ primary_called
         /\ calls[1].args = Args(body["response"], body["answer"], params0)
         /\ \A n \in DOMAIN calls : calls[n].site.kind # "preview"
         /\ IF primary_outcome.kind = "raise"
            THEN DOMAIN retval = {"error"}
            ELSE /\ DOMAIN retval = {"command", "result"}
                 /\ retval["command"] = "eval"

\* C18: when handler() has returned, an event without command header and an
\* event with the command "grade" were answered as an eval command is; an
\* event with a command other than healthcheck, eval, grade, preview,
\* docs-dev, docs and docs-user was answered {error: {message: "Unknown
\* command '<command>'."}}, with no call of the evaluation or preview
\* function and nothing read from the body.
C18_Dispatch ==
    pc = "handler returned"
    => /\ (no_command_header \/ command \in {"eval", "grade"})
          => answered_as_eval
       /\ (~no_command_header
           /\ event["headers"]["command"] \notin
                {"healthcheck", "eval", "grade", "preview", "docs-dev",
                 "docs", "docs-user"})
          => /\ retval = [error |-> [message |->
                   "Unknown command '" \o event["headers"]["command"] \o "'."]]
             /\ calls = <<>>
             /\ params = None
             /\ result = None

\* An event without command header was evaluated and answered under the
\* command eval.
C18_Witness ==
    /\ pc = "handler returned"
    /\ no_command_header
    /\ Has(retval, "command")
    /\ retval["command"] = "eval"
    /\ Len(calls) = 1

\* An event with the command "not a command" and a body that is no JSON was
\* answered.
C18_WitnessUnknown ==
    /\ pc = "handler returned"
    /\ command = "not a command"
    /\ event["body"] = PyStr(NotJson)
    /\ Has(retval, "error")

\* C19: handle_eval_command returns its failures: for an event it cannot
\* parse {error: parse_error} ("No data supplied in request body." without
\* body), for a body that fails validation {error: request_error}, both
\* without a call of the evaluation function; for a fault of the primary
\* call {error: the fault's payload} or {error: {message, detail}}, with no
\* case evaluated.  None of them raises, none has a command or result key.
C19_FailuresReturned ==
    (command \in {"eval", "grade"} /\ pc # "handler")
    => /\ parse_body(event).kind = "raise"
          => /\ pc \in {"respond", "handler returned"}
             /\ response = [error |-> [message |-> parse_body(event).exc.message]]
             /\ ~Has(event, "body")
                => response["error"]["message"]
                     = "No data supplied in request body."
             /\ calls = <<>>
       /\ (parse_body(event).kind = "return"
           /\ (~Has(body, "response") \/ ~Has(body, "answer")))
          => /\ pc \in {"respond", "handler returned"}
             /\ DOMAIN response = {"error"}
             /\ response["error"]["message"]
                  = "Schema threw an error when validating the request body."
             /\ calls = <<>>
       /\ (primary_called /\ primary_outcome.kind = "raise")
          => /\ pc \in {"respond", "handler returned"}
             /\ DOMAIN response = {"error"}
             /\ response["error"] =
                  IF primary_outcome.exc.cls = "EvaluationException"
                  THEN primary_outcome.exc.error_dict
                  ELSE [message |-> "An exception was raised while executing the evaluation function.",
                        detail |-> IF Str(primary_outcome.exc) # ""
                                   THEN Str(primary_outcome.exc)
                                   ELSE Repr(primary_outcome.exc)]
             /\ Len(calls) = 1
             /\ evaluated = <<>>

\* The primary call of a request with cases raised an EvaluationException
\* and handle_eval_command has returned its payload as the error.
C19_Witness ==
    /\ pc = "respond"
    /\ primary_called
    /\ primary_outcome.kind = "raise"
    /\ primary_outcome.exc.cls = "EvaluationException"
    /\ Len(cases0) > 0
    /\ response = [error |-> primary_outcome.exc.error_dict]

\* An event without body was answered by handle_eval_command.
C19_WitnessNoBody ==
    /\ pc = "respond"
    /\ ~Has(event, "body")
    /\ response = [error |-> [message |-> "No data supplied in request body."]]

C22_CallsOrdered ==
    /\ \A n \in DOMAIN calls : (calls[n].site.kind = "primary") <=> (n = 1)
    /\ \A n \in DOMAIN calls :
           n > 1 => /\ calls[n].site.kind = "case"
                    /\ calls[n].site.index \in 0..(Len(cases0) - 1)
                    /\ \A m \in 2..(n - 1) :
                           calls[m].site.index < calls[n].site.index
    /\ \A k \in DOMAIN evaluated :
           \A j \in 1..(k - 1) : evaluated[j].index < evaluated[k].index
    /\ evaluated # <<>> => primary_called
    /\ Len(calls) <= 1 + Len(cases0)

\* The primary call was followed by the calls for the cases at 0 and 1.
C22_Witness ==
    /\ pc = "returned"
    /\ Len(calls) = 3
    /\ calls[2].site.index = 0
    /\ calls[3].site.index = 1

\* C24: get_case_feedback leaves every case but the matched one as it was
\* supplied; the matched case keeps its fields, gains id, and has another
\* feedback only if its override_eval_feedback is truthy; without a match
\* the list is as supplied; the keys of params other than cases keep their
\* values and the list keeps its length.
C24_OnlyMatchMutated ==
    primary_called
    => /\ DOMAIN params = DOMAIN params0
       /\ \A x \in (DOMAIN params0) \ {"cases"} : params[x] = params0[x]
       /\ Has(params0, "cases")
          => /\ Len(params["cases"]) = Len(cases0)
             /\ \A k \in DOMAIN cases0 :
                    LET c == params["cases"][k]
                    IN  IF match # None /\ match["id"] = k - 1
                        THEN /\ c = match
                             /\ DOMAIN c = (DOMAIN cases0[k]) \cup {"id"}
                             /\ \A x \in (DOMAIN cases0[k]) \ {"id", "feedback"} :
                                    c[x] = cases0[k][x]
                             /\ c["feedback"] # cases0[k]["feedback"]
                                => override_eval_feedback(cases0[k])
                        ELSE c = cases0[k]

\* The case at index 1 matched and was rewritten; the case at index 0, which
\* has params and a mark of its own or not, is as supplied.
C24_Witness ==
    /\ pc = "returned"
    /\ match # None
    /\ match["id"] = 1
    /\ params["cases"][2]["feedback"] # cases0[2]["feedback"]
    /\ params["cases"][1] = cases0[1]
    /\ ~lacks_field(cases0[1])

\* C28: the warnings get_case_feedback returns each name a case of the
\* list, in strictly increasing order of index (so one at most per case);
\* an entry without case index has no per-case warning after it.
C28_WarningsInOrder ==
    resolved
    => \A k \in DOMAIN warnings :
           IF Has(warnings[k], "case")
           THEN /\ warnings[k]["case"] \in 0..(Len(cases0) - 1)
                /\ \A j \in 1..(k - 1) :
                       /\ Has(warnings[j], "case")
                       /\ warnings[j]["case"] < warnings[k]["case"]
           ELSE \A j \in (k + 1)..Len(warnings) : ~Has(warnings[j], "case")

\* The cases at 0 and 1 were both warned about, the second for a fault.
C28_Witness ==
    /\ resolved
    /\ Len(warnings) = 2
    /\ warnings[1]["case"] = 0
    /\ warnings[2]["case"] = 1
    /\ Has(warnings[2], "detail")

\* C29: the result evaluate returns differs from the primary result only
\* so: feedback and matched_case are set, both, exactly when a case matched;
\* is_correct is another only if the matched case has a mark; warnings is
\* there only if a case produced a warning.  Without a match is_correct and
\* the primary feedback are as the primary call returned them, and a
\* matched case without mark leaves is_correct False.
C29_ResultFrame ==
    (pc = "returned" /\ primary_called)
    => LET r0 == primary_outcome.value
           r == retval.result
       IN  /\ DOMAIN r \subseteq (DOMAIN r0) \cup {"feedback", "matched_case", "warnings"}
           /\ DOMAIN r0 \subseteq DOMAIN r
           /\ Has(r, "matched_case") <=> match # None
           /\ match # None
              => /\ Has(r, "feedback")
                 /\ r["feedback"] = match["feedback"]
                 /\ r["matched_case"] = match["id"]
           /\ match = None
              => /\ r["is_correct"] = r0["is_correct"]
                 /\ Has(r, "feedback") <=> Has(r0, "feedback")
                 /\ Has(r0, "feedback") => r["feedback"] = r0["feedback"]
           /\ r["is_correct"] # r0["is_correct"]
              => match # None /\ Has(match, "mark")
           /\ (match # None /\ ~Has(match, "mark")) => r["is_correct"] = FALSE
           /\ Has(r, "warnings") => produced # {}

\* A case without mark matched a request whose primary result had feedback
\* of its own: is_correct is still False and the feedback is the case's.
C29_Witness ==
    /\ pc = "returned"
    /\ primary_called
    /\ Has(primary_outcome.value, "feedback")
    /\ match # None
    /\ ~Has(match, "mark")
    /\ retval.result["is_correct"] = FALSE
    /\ retval.result["feedback"] # primary_outcome.value["feedback"]

\* feedback_from_cases has returned to handle_eval_command, which returned.
handler_resolved ==
    pc \in {"respond", "handler returned"} /\ evaluated # <<>>

\* The entries of ws without a case index.
aggregate(ws) == {k \in DOMAIN ws : ~Has(ws[k], "case")}

\* The indices ms as the aggregate entry shows them, for up to three.
listed(ms) ==
    IF Len(ms) = 2 THEN ToString(ms[1]) \o ", " \o ToString(ms[2])
    ELSE ToString(ms[1]) \o ", " \o ToString(ms[2]) \o ", " \o ToString(ms[3])

\* C23: the warnings get_case_feedback or feedback_from_cases returns have
\* at most one entry "Cases ... were matched", only when two cases or more
\* matched, and it names all the matched indices, in the order they were
\* found, with ", " between them.
C23_OneAggregate ==
    (resolved \/ handler_resolved)
    => /\ Cardinality(aggregate(warnings)) <= 1
       /\ \A k \in aggregate(warnings) :
              /\ Len(matches) >= 2
              /\ \A j \in 2..Len(matches) : matches[j - 1] < matches[j]
              /\ warnings[k] =
                   [message |-> "Cases " \o listed(matches)
                      \o " were matched. Only the first one's feedback was returned"]

\* feedback_from_cases found the cases at 0 and 1 matching and said so after
\* nothing else.
C23_Witness ==
    /\ handler_resolved
    /\ matches = <<0, 1>>
    /\ warnings = <<[message |->
         "Cases 0, 1 were matched. Only the first one's feedback was returned"]>>

\* C25: when feedback_from_cases is through and the first case that matched
\* has no truthy override_eval_feedback, with or without a params field,
\* it has returned that case, with the feedback the case was supplied with.
C25_HandlerFeedbackVerbatim ==
    ( /\ pc \in {"respond", "handler returned", "handler raised"}
      /\ Len(matches) > 0
      /\ ~override_eval_feedback(cases0[matches[1] + 1]) )
    => /\ match # None
       /\ match["id"] = matches[1]
       /\ match["feedback"] = cases0[matches[1] + 1]["feedback"]

\* The call of evaluate_case logged at k was for a case with answer and
\* feedback, and the evaluation function raised an EvaluationException.
structured_fault(k) ==
    LET i == evaluated[k].index
    IN  /\ ~lacks_field(cases0[i + 1])
        /\ fn[CaseArgs(i)].kind = "raise"
        /\ fn[CaseArgs(i)].exc.cls = "EvaluationException"

\* C26: when the evaluation function raises an EvaluationException in the
\* call for case i, evaluate_case returns a CaseResult that is no match and
\* whose warning has case = i and every (other) field of the payload,
\* whatever the payload.
C26_StructuredFaultWarned ==
    \A k \in DOMAIN evaluated :
        structured_fault(k)
        => LET i == evaluated[k].index
               d == fn[CaseArgs(i)].exc.error_dict
               o == evaluated[k].outcome
           IN  /\ o.kind = "return"
               /\ o.value.is_correct = FALSE
               /\ o.value.warning # None
               /\ o.value.warning["case"] = i
               /\ \A x \in (DOMAIN d) \ {"case"} : o.value.warning[x] = d[x]

\* ---- The two policies of the case loop ----

\* find_first_matching_case is through, by return or by an exception;
\* evaluate_all_cases is called with the same response, the params and the
\* cases as supplied, and the same evaluation function.
CallEvaluateAll ==
    /\ pc \in {"returned", "raised"}
    /\ Len(evaluated) > 0
    /\ first_run = None
    /\ first_run' = [returned |-> resolved, matches |-> matches,
                     feedback |-> feedback, warnings |-> warnings,
                     evaluated |-> Len(evaluated)]
    /\ params' = params0
    /\ index' = 0
    /\ matches' = <<>>
    /\ feedback' = <<>>
    /\ warnings' = <<>>
    /\ match' = None
    /\ retval' = None
    /\ raised' = None
    /\ pc' = "evaluate_all_cases"
    /\ UNCHANGED <<event, evaluation_function, result, calls, evaluated, fn,
                   response>>

\* One iteration of the loop of evaluate_all_cases, evaluate_case having
\* returned or raised cr: no break after a match.
AllIteration(cr) ==
    /\ evaluated' = Append(evaluated, [index |-> index, outcome |-> cr])
    /\ IF cr.kind = "raise"
       THEN /\ pc' = "all raised"
            /\ raised' = cr.exc
            /\ UNCHANGED <<index, matches, feedback, warnings>>
       ELSE LET r == cr.value
            IN  /\ warnings' = IF r.warning # None
                               THEN Append(warnings, r.warning) ELSE warnings
                /\ matches' = IF r.is_correct THEN Append(matches, index)
                              ELSE matches
                /\ feedback' = IF r.is_correct THEN Append(feedback, r.feedback)
                               ELSE feedback
                /\ IF index + 1 = Len(params["cases"])
                   THEN pc' = "all returned" /\ UNCHANGED index
                   ELSE index' = index + 1 /\ UNCHANGED pc
                /\ UNCHANGED raised
    /\ UNCHANGED <<params, result, match, retval>>

\* evaluate_all_cases at a case without answer or feedback.
AllCaseMissingField ==
    /\ pc = "evaluate_all_cases"
    /\ LET c == params["cases"][index + 1]
       IN  /\ missing_field(c)
           /\ AllIteration(evaluate_case(params, c, index, None))
    /\ UNCHANGED <<event, evaluation_function, calls, fn, response, first_run>>

\* evaluate_all_cases at a case with answer and feedback.
AllCaseCall ==
    /\ pc = "evaluate_all_cases"
    /\ LET c == params["cases"][index + 1]
           a == Args(body["response"], c["answer"], combined_params(params, c))
       IN  /\ ~missing_field(c)
           /\ \E o \in OutcomesOf(a) :
                /\ Called([kind |-> "case", index |-> index], a, o)
                /\ AllIteration(evaluate_case(params, c, index, o))
    /\ UNCHANGED <<event, evaluation_function, response, first_run>>

PoliciesNext == Next \/ CallEvaluateAll \/ AllCaseMissingField \/ AllCaseCall

Policies == Init /\ [][PoliciesNext]_vars

\* The call of evaluate_case logged at k was for a case with answer and
\* feedback, and the evaluation function raised.
faulted(k) ==
    LET i == evaluated[k].index
    IN  /\ ~lacks_field(cases0[i + 1])
        /\ fn[CaseArgs(i)].kind = "raise"

\* The loop that made the call logged at k is through.
loop_over(k) ==
    IF first_run = None THEN pc \in {"returned", "raised"}
    ELSE k <= first_run.evaluated \/ pc \in {"all returned", "all raised"}

\* ws is a prefix of vs.
is_prefix(ws, vs) ==
    Len(ws) <= Len(vs) /\ \A k \in DOMAIN ws : ws[k] = vs[k]

\* C21: in find_first_matching_case and in evaluate_all_cases, a fault of
\* the evaluation function in the call for case i gives a warning for
\* index i and does not end the loop: with no match up to i, the case at
\* i + 1, when there is one, is evaluated next and is the match if it
\* matches.
C21_FaultDoesNotStopLoop ==
    \A k \in DOMAIN evaluated :
        faulted(k)
        => LET i == evaluated[k].index
               o == evaluated[k].outcome
           IN  /\ o.kind = "return"
               /\ o.value.warning # None
               /\ o.value.warning["case"] = i
               /\ ( /\ loop_over(k)
                    /\ i + 1 < Len(cases0)
                    /\ \A j \in 0..i : ~is_match(j) )
                  => /\ k + 1 \in DOMAIN evaluated
                     /\ evaluated[k + 1].index = i + 1
                     /\ is_match(i + 1)
                        => /\ evaluated[k + 1].outcome.kind = "return"
                           /\ evaluated[k + 1].outcome.value.is_correct

\* C27: find_first_matching_case having returned, evaluate_all_cases
\* returns for the same arguments, with matches empty if and only if those
\* of the first are, the same first match and first feedback, and warnings
\* that start with the warnings of the first.
C27_PoliciesAgree ==
    ( /\ pc \in {"all returned", "all raised"}
      /\ first_run.returned )
    => /\ pc = "all returned"
       /\ (matches = <<>>) <=> (first_run.matches = <<>>)
       /\ matches # <<>>
          => /\ matches[1] = first_run.matches[1]
             /\ feedback[1] = first_run.feedback[1]
       /\ is_prefix(first_run.warnings, warnings)

\* ---- A second call on the case list the first call left ----

\* The arguments a with the case list in params as the caller supplied it:
\* what an evaluation function that does not read params["cases"] goes by.
as_supplied(a) ==
    [a EXCEPT !.params = IF Has(@, "cases") THEN Put(@, "cases", cases0)
                         ELSE @]

\* The evaluation function is called again, with arguments a, and does o.
Recalled(site, a, o) ==
    /\ calls' = Append(calls, [site |-> site, args |-> a])
    /\ fn' = (as_supplied(a) :> o) @@ fn

\* get_case_feedback has returned; it is called again with the same response
\* and the same params object, whose case list the first call wrote to.
AgainLive ==
    /\ pc \in {"returned", "raised"}
    /\ resolved
    /\ first_run = None
    /\ first_run' = [match |-> match, warnings |-> warnings,
                     matches |-> matches, feedback |-> feedback]
    /\ result' = primary_outcome.value
    /\ index' = 0
    /\ matches' = <<>>
    /\ feedback' = <<>>
    /\ warnings' = <<>>
    /\ match' = None
    /\ retval' = None
    /\ raised' = None
    /\ pc' = "cases again"
    /\ UNCHANGED <<event, evaluation_function, params, calls, evaluated, fn,
                   response>>

\* The second call at a case without answer or feedback.
LiveCaseMissingField ==
    /\ pc = "cases again"
    /\ LET c == params["cases"][index + 1]
       IN  /\ missing_field(c)
           /\ Iteration(evaluate_case(params, c, index, None))
    /\ UNCHANGED <<event, evaluation_function, calls, fn, response, first_run>>

\* The second call at a case with answer and feedback.
LiveCaseCall ==
    /\ pc = "cases again"
    /\ LET c == params["cases"][index + 1]
           a == Args(body["response"], c["answer"], combined_params(params, c))
       IN  /\ ~missing_field(c)
           /\ \E o \in OutcomesOf(as_supplied(a)) :
                /\ Recalled([kind |-> "case", index |-> index], a, o)
                /\ Iteration(evaluate_case(params, c, index, o))
    /\ UNCHANGED <<event, evaluation_function, response, first_run>>

ReliveNext == Next \/ AgainLive \/ LiveCaseMissingField \/ LiveCaseCall

Relive == Init /\ [][ReliveNext]_vars

\* The second call of get_case_feedback is through.
second_call_done == first_run # None /\ pc \in {"returned", "raised"}

\* C30: a second call of get_case_feedback on the case list as the first
\* call left it, the evaluation function not going by that list, returns a
\* match if and only if the first did, with the same index; the feedback of
\* the matched case is that of the first call when override_eval_feedback is
\* not truthy, and that of the first call, "<br />" and the feedback of the
\* function once more when it is.
C30_SecondCallAppends ==
    second_call_done
    => /\ resolved
       /\ (match = None) <=> (first_run.match = None)
       /\ match # None
          => /\ match["id"] = first_run.match["id"]
             /\ feedback = first_run.feedback
             /\ IF override_eval_feedback(match)
                THEN match["feedback"]
                       = first_run.match["feedback"] \o "<br />" \o feedback[1]
                ELSE match["feedback"] = first_run.match["feedback"]

\* Both calls matched the case at index 0, with override_eval_feedback set;
\* the function's "well done" is in its feedback twice.
C30_Witness ==
    /\ second_call_done
    /\ match # None
    /\ match["id"] = 0
    /\ override_eval_feedback(match)
    /\ first_run.match["feedback"]
         = cases0[1]["feedback"] \o "<br />well done"
    /\ match["feedback"]
         = cases0[1]["feedback"] \o "<br />well done<br />well done"

\* C30 as stated: the second call on the list the first one left returns
\* the matched index and the matched-case feedback of the first,
\* override_eval_feedback set or not.
C30_Idempotent ==
    (second_call_done /\ first_run.match # None)
    => /\ match # None
       /\ match["id"] = first_run.match["id"]
       /\ match["feedback"] = first_run.match["feedback"]

====
